---- MODULE Spec2Model ----
(***************************************************************************)
(* Model of get_new_camera_info_tables (arcgis_oriented_imagery/data.py):  *)
(* the manifest-driven download of camera info tables from an S3 prefix.   *)
(* Strings whose content the code inspects (object keys, file names) are   *)
(* sequences of characters; timestamps are the strings isoformat() makes.  *)
(***************************************************************************)
EXTENDS Integers, Sequences, FiniteSets, TLC

(* ------------------------------ bounds --------------------------------- *)
\* last-modified instants the remote store may report: 1..MaxDay
MaxDay == 2
\* number of objects under the prefix
MaxRecs == 2
\* invocations of get_new_camera_info_tables in one behaviour
MaxRuns == 2

(* --------------------------- strings and keys --------------------------- *)
CsvSuffix == <<".", "c", "s", "v">>

KeyA1 == <<"p", "/", "a", ".", "c", "s", "v">>
KeyA2 == <<"q", "/", "a", ".", "c", "s", "v">>
KeyTxt == <<"p", "/", "n", ".", "t", "x", "t">>
KeyUpper == <<"p", "/", "c", ".", "C", "S", "V">>
KeyB == <<"p", "/", "b", ".", "c", "s", "v">>
Keys == {KeyA1, KeyA2, KeyB, KeyTxt, KeyUpper}

FileA == <<"a", ".", "c", "s", "v">>
FileTxt == <<"n", ".", "t", "x", "t">>

\* str.endswith
EndsWith(s, suffix) ==
    /\ Len(s) >= Len(suffix)
    /\ SubSeq(s, Len(s) - Len(suffix) + 1, Len(s)) = suffix

SetMax(S) == CHOOSE m \in S : \A x \in S : x <= m

\* key.split("/")[-1]
LastSegment(key) ==
    LET slashes == {i \in 1..Len(key) : key[i] = "/"}
        from == IF slashes = {} THEN 1 ELSE SetMax(slashes) + 1
    IN  SubSeq(key, from, Len(key))

\* local_working_directory / filename
LocalPath(filename) == <<"out", filename>>

(* ------------------------------ timestamps ------------------------------ *)
Days == 1..MaxDay

\* a datetime as the store's client hands it out
DateTime(d) == [day |-> d, tzinfo |-> "none"]

\* datetime.replace(tzinfo=timezone.utc)
ReplaceTzUtc(dt) == [dt EXCEPT !.tzinfo = "utc"]

\* datetime.isoformat(): the wall clock, then the offset of an aware datetime
IsoFormat(dt) == <<dt.day, IF dt.tzinfo = "utc" THEN "+00:00" ELSE "">>

\* obj["LastModified"].replace(tzinfo=timezone.utc).isoformat()
RemoteMtime(obj) == IsoFormat(ReplaceTzUtc(obj.LastModified))

\* the same instant written with the Z designator: equal in time, not as a string
ZForm(d) == <<d, "Z">>

(* ----------------------------- remote store ----------------------------- *)
\* when a truncated page carries its NextContinuationToken: on every call, only
\* from the second identical call on, or on no call at all
TokenBehaviours == {"always", "on_retry", "never"}

Objects == [Key : Keys, LastModified : {DateTime(d) : d \in Days}]

\* the place of a key in the order list_objects_v2 lists keys in (ascending,
\* by the bytes of the key)
KeyRank(key) ==
    CASE key = KeyA1 -> 1
      [] key = KeyB -> 2
      [] key = KeyUpper -> 3
      [] key = KeyTxt -> 4
      [] key = KeyA2 -> 5

\* listings of at most MaxRecs objects, each key once, in the order of the keys
Listings ==
    UNION {{s \in [1..n -> Objects] :
               \A i, j \in 1..n : i < j => KeyRank(s[i].Key) < KeyRank(s[j].Key)}
           : n \in 0..MaxRecs}

Min(a, b) == IF a <= b THEN a ELSE b

NumPages(store) == (Len(store.objects) + store.pageSize - 1) \div store.pageSize

Page(store, n) ==
    SubSeq(store.objects, (n - 1) * store.pageSize + 1,
           Min(n * store.pageSize, Len(store.objects)))

\* the store's answer to the attempt-th list call for page n
ListObjectsV2(store, n, attempt) ==
    IF Len(store.objects) = 0
    THEN [hasContents |-> FALSE, Contents |-> <<>>,
          IsTruncated |-> FALSE, hasToken |-> FALSE]
    ELSE [hasContents |-> TRUE, Contents |-> Page(store, n),
          IsTruncated |-> n < NumPages(store),
          hasToken |-> /\ n < NumPages(store)
                       /\ \/ store.token = "always"
                          \/ store.token = "on_retry" /\ attempt > 1]

\* a page holds all the objects the bound allows, or one less
PageSizes == {n \in 1..MaxRecs : n >= MaxRecs - 1}

Stores ==
    {st \in [objects : Listings, pageSize : PageSizes, token : TokenBehaviours] :
        /\ (Len(st.objects) < MaxRecs => st.pageSize = MaxRecs)
        /\ (NumPages(st) <= 1 => st.token = "always")}

(* ----------------------------- manifest file ---------------------------- *)
ManifestStrings == {IsoFormat(ReplaceTzUtc(DateTime(d))) : d \in Days} \cup {ZForm(1)}

EmptyManifest == [f \in {} |-> <<>>]

\* dict.__setitem__
DictSet(m, k, v) == [f \in DOMAIN m \cup {k} |-> IF f = k THEN v ELSE m[f]]

StoredManifests ==
    {m \in UNION {[D -> ManifestStrings] : D \in SUBSET {FileA, FileTxt}} :
        FileTxt \in DOMAIN m => m[FileTxt] = ZForm(1)}

\* the file at manifest_file: absent, or present with JSON that parses or not
AbsentFile == [exists |-> FALSE, parses |-> FALSE, data |-> EmptyManifest,
               parent |-> TRUE]
CorruptFile == [exists |-> TRUE, parses |-> FALSE, data |-> EmptyManifest,
                parent |-> TRUE]
JsonFile(m) == [exists |-> TRUE, parses |-> TRUE, data |-> m, parent |-> TRUE]

\* manifest_file given explicitly, under a directory that does not exist
NoParentFile == [exists |-> FALSE, parses |-> FALSE, data |-> EmptyManifest,
                 parent |-> FALSE]

ManifestFiles ==
    {AbsentFile, CorruptFile, NoParentFile} \cup {JsonFile(m) : m \in StoredManifests}

(* ------------------------- paths and file system ------------------------ *)
\* invocations of the dataset and schema functions in one behaviour
MaxCalls == 2
\* columns of a table
MaxCols == 2

\* a path is its components; a component is <<stem, suffix>>, the suffix a
\* sequence of characters (Path.suffix)
NoSuffix == <<>>
GdbSuffix == <<".", "g", "d", "b">>
GdbSuffixUpper == <<".", "G", "D", "B">>
CsvFileSuffix == <<".", "c", "s", "v">>

\* str.lower, on the characters that occur
LowerChar(c) ==
    CASE c = "G" -> "g"
      [] c = "D" -> "d"
      [] c = "B" -> "b"
      [] OTHER -> c

Lower(s) == [i \in DOMAIN s |-> LowerChar(s[i])]

\* Path.parent
Parent(path) == SubSeq(path, 1, Len(path) - 1)

\* Path.name
PathName(path) == path[Len(path)]

\* Path.suffix
Suffix(path) == path[Len(path)][2]

\* Path.with_suffix
WithSuffix(path, s) == [path EXCEPT ![Len(path)] = <<@[1], s>>]

\* parent / name
Join(path, name) == Append(path, name)

TmpPath == <<<<"tmp", NoSuffix>>>>
NestedPath == Join(TmpPath, <<"nested", NoSuffix>>)

\* the paths handed to create_file_geodatabase
GdbPaths == {Join(TmpPath, <<"my", GdbSuffix>>), Join(NestedPath, <<"my", GdbSuffix>>)}

\* the paths handed to create_oriented_imagery_dataset
DatasetName == <<"dataset", NoSuffix>>
DatasetPaths ==
    {Join(Join(TmpPath, <<"my", GdbSuffix>>), DatasetName),
     Join(Join(TmpPath, <<"test", GdbSuffixUpper>>), DatasetName),
     Join(Join(NestedPath, <<"plain", NoSuffix>>), DatasetName)}

CamCsv == Join(TmpPath, <<"cam", CsvFileSuffix>>)
NopeCsv == Join(TmpPath, <<"nope", CsvFileSuffix>>)
OutCsv == Join(TmpPath, <<"out", CsvFileSuffix>>)

\* the file system: the paths that exist and what is at each
DirNode == [kind |-> "dir", columns |-> <<>>]
GdbNode == [kind |-> "gdb", columns |-> <<>>]
DatasetNode == [kind |-> "dataset", columns |-> <<>>]
CsvNode(columns) == [kind |-> "csv", columns |-> columns]

\* Path.exists
Exists(files, path) == path \in DOMAIN files

WriteNode(files, path, node) ==
    [p \in DOMAIN files \cup {path} |-> IF p = path THEN node ELSE files[p]]

\* Path.mkdir(parents=True)
MkdirParents(files, path) ==
    [p \in DOMAIN files \cup {SubSeq(path, 1, n) : n \in 1..Len(path)} |->
        IF p \in DOMAIN files THEN files[p] ELSE DirNode]

\* tables: column names in order, no name twice
ColumnNames == {"a", "b"}
ColumnLists ==
    {cols \in UNION {[1..n -> ColumnNames] : n \in 1..MaxCols} :
        \A i, j \in DOMAIN cols : i # j => cols[i] # cols[j]}

\* column_mapping: old name -> new name
Mappings == UNION {[D -> {"b", "y"}] : D \in SUBSET {"a", "x"}}
NoMapping == [k \in {} |-> ""]

SpatialReferenceArgs == {"int", "SpatialReference", "str"}

\* the record kept of the last invocation
Outcome(fn, path, returned, raised) ==
    [fn |-> fn, path |-> path, returned |-> returned, raised |-> raised,
     spatial_reference |-> "none", table |-> <<>>, columns |-> <<>>,
     mapping |-> NoMapping, result |-> <<>>]

NoCall == Outcome("none", <<>>, <<>>, "none")

FilesAtStart == {WriteNode(WriteNode(<<>>, TmpPath, DirNode), CamCsv, CsvNode(cols)) :
                    cols \in ColumnLists}

(* ------------------------- scripts/make_data.py ------------------------- *)
\* the options the script reads from the DEFAULT section of config.ini
ConfigOptions == {"LOG_DIRECTORY", "LOG_LEVEL", "S3_BUCKET", "WORKING_DIRECTORY"}

\* the script's position, the exception that ended it, its calls of
\* get_new_camera_info_tables, the list that call returned, and the tables it
\* passed to process_camera_info_table
ScriptAt(pc_, raised_) ==
    [pc |-> pc_, raised |-> raised_, syncCalls |-> 0, new_csv_files |-> <<>>,
     processCalls |-> <<>>]

NotStarted == ScriptAt("start", "none")

(* ---------------------------- s3_bucket_path ---------------------------- *)
\* the argument in the pieces the regular expressions look at
NoPath == <<>>
WellFormedPath == <<"s3://", "bucket", "/", "p">>
BucketPaths == {WellFormedPath, <<"bucket", "/", "p">>, <<"s3://", "/", "p">>}

\* re.match(r"s3://([^/]+)", s3_bucket_path) is not None
BucketMatches(path) == Len(path) >= 2 /\ path[1] = "s3://" /\ path[2] # "/"

(* -------------------------------- state --------------------------------- *)
VARIABLES
    remote,            \* the S3 prefix: objects, page size, token behaviour
    manifestFile,      \* the file at manifest_file
    pc,                \* position in get_new_camera_info_tables
    run,               \* invocations started so far
    response,          \* response of list_objects_v2
    existing_manifest, \* the manifest dict in memory
    idx,               \* position of the for loop in response["Contents"]
    new_tables,        \* the list being built
    returned,          \* the value handed to the caller
    raised,            \* the exception caught in this invocation
    raisedBy,          \* the call that raised it
    listCalls,         \* list_objects_v2 calls of this invocation
    downloadCalls,     \* keys passed to download_file in this invocation
    manifestReads,     \* times the manifest file was opened for reading
    manifestWrites,    \* times the manifest file was opened for writing
    manifestAtStart,   \* the manifest file when this invocation started
    prev,              \* how the previous invocation ended
    s3_bucket_path,    \* the s3_bucket_path argument of this invocation
    files,             \* the local file system
    filesAtCall,       \* the file system when the last dataset or schema call began
    arcpyCalls,        \* the arcpy tools invoked, in order
    last,              \* the last dataset or schema call and how it ended
    ncalls,            \* dataset and schema calls made so far
    script             \* scripts/make_data.py: where it is and what it has called

syncVars == <<remote, manifestFile, pc, run, response, existing_manifest, idx,
              new_tables, returned, raised, raisedBy, listCalls, downloadCalls,
              manifestReads, manifestWrites, manifestAtStart, prev,
              s3_bucket_path>>

toolVars == <<files, filesAtCall, arcpyCalls, last, ncalls, script>>

vars == <<syncVars, toolVars>>

NoResponse == [hasContents |-> FALSE, Contents |-> <<>>,
               IsTruncated |-> FALSE, hasToken |-> FALSE]

Init ==
    /\ remote \in Stores
    /\ manifestFile \in ManifestFiles
    /\ pc = "idle"
    /\ run = 0
    /\ response = NoResponse
    /\ existing_manifest = EmptyManifest
    /\ idx = 1
    /\ new_tables = <<>>
    /\ returned = <<>>
    /\ raised = "none"
    /\ raisedBy = "none"
    /\ listCalls = 0
    /\ downloadCalls = <<>>
    /\ manifestReads = 0
    /\ manifestWrites = 0
    /\ manifestAtStart = manifestFile
    /\ prev = "none"
    /\ s3_bucket_path = NoPath
    /\ files = CHOOSE f \in FilesAtStart : TRUE
    /\ filesAtCall = files
    /\ arcpyCalls = <<>>
    /\ last = NoCall
    /\ ncalls = 0
    /\ script = NotStarted

(* ----------------------- get_new_camera_info_tables --------------------- *)
\* variant: the suffix test ignores case
IsCsvFile_AnyCase(filename) ==
    \/ EndsWith(filename, CsvSuffix)
    \/ EndsWith(filename, <<".", "C", "S", "V">>)

\* filename.endswith(".csv")
IsCsvFile(filename) == EndsWith(filename, CsvSuffix)

\* the condition of the if statement in the loop over response["Contents"]
ShouldDownload(manifest, obj) ==
    LET filename == LastSegment(obj.Key)
    IN  /\ IsCsvFile(filename)
        /\ IF filename \notin DOMAIN manifest THEN TRUE
           ELSE manifest[filename] # RemoteMtime(obj)

\* variant: the result of re.match is not used, the listing is made in any case
Call_ListsAnyway ==
    /\ pc \in {"idle", "done", "failed"}
    /\ run < MaxRuns
    /\ run' = run + 1
    /\ \E path \in BucketPaths : s3_bucket_path' = path
    /\ pc' = "list"
    /\ raised' = "none"
    /\ raisedBy' = "none"
    /\ prev' = IF pc = "idle" THEN "none"
               ELSE IF raised # "none" THEN "error"
               ELSE IF manifestWrites = 0 THEN "no_contents" ELSE "ok"
    /\ response' = NoResponse
    /\ existing_manifest' = EmptyManifest
    /\ idx' = 1
    /\ new_tables' = <<>>
    /\ returned' = <<>>
    /\ listCalls' = 0
    /\ downloadCalls' = <<>>
    /\ manifestReads' = 0
    /\ manifestWrites' = 0
    /\ manifestAtStart' = manifestFile
    /\ UNCHANGED toolVars
    /\ UNCHANGED <<remote, manifestFile>>

\* the function is entered: paths are set up, the client is made, the bucket
\* name is taken from the match, new_tables = []; with no match, .group(1) on
\* None raises AttributeError outside the try block, to the caller
Call ==
    /\ pc \in {"idle", "done", "failed"}
    /\ run < MaxRuns
    /\ run' = run + 1
    /\ \E path \in BucketPaths :
        /\ s3_bucket_path' = path
        /\ IF BucketMatches(path)
           THEN pc' = "list" /\ raised' = "none" /\ raisedBy' = "none"
           ELSE pc' = "failed" /\ raised' = "AttributeError" /\ raisedBy' = "re.match"
    /\ prev' = IF pc = "idle" THEN "none"
               ELSE IF raised # "none" THEN "error"
               ELSE IF manifestWrites = 0 THEN "no_contents" ELSE "ok"
    /\ response' = NoResponse
    /\ existing_manifest' = EmptyManifest
    /\ idx' = 1
    /\ new_tables' = <<>>
    /\ returned' = <<>>
    /\ listCalls' = 0
    /\ downloadCalls' = <<>>
    /\ manifestReads' = 0
    /\ manifestWrites' = 0
    /\ manifestAtStart' = manifestFile
    /\ UNCHANGED toolVars
    /\ UNCHANGED <<remote, manifestFile>>

\* variant: the credentials handler writes the (empty) manifest before returning
ListRaisesCredentials_DumpsManifest ==
    /\ pc = "list"
    /\ \E e \in {"NoCredentialsError", "PartialCredentialsError"} : raised' = e
    /\ raisedBy' = "list_objects_v2"
    /\ listCalls' = listCalls + 1
    /\ manifestFile' = JsonFile(existing_manifest)
    /\ manifestWrites' = manifestWrites + 1
    /\ returned' = new_tables
    /\ pc' = "done"
    /\ UNCHANGED toolVars
    /\ UNCHANGED <<s3_bucket_path, remote, run, response, existing_manifest, idx, new_tables,
                   downloadCalls, manifestReads, manifestAtStart, prev>>

\* list_objects_v2 raises NoCredentialsError or PartialCredentialsError
ListRaisesCredentials ==
    /\ pc = "list"
    /\ \E e \in {"NoCredentialsError", "PartialCredentialsError"} : raised' = e
    /\ raisedBy' = "list_objects_v2"
    /\ listCalls' = listCalls + 1
    /\ returned' = new_tables
    /\ pc' = "done"
    /\ UNCHANGED toolVars
    /\ UNCHANGED <<s3_bucket_path, remote, manifestFile, run, response, existing_manifest, idx,
                   new_tables, downloadCalls, manifestReads, manifestWrites,
                   manifestAtStart, prev>>

\* list_objects_v2 raises any other exception
ListRaisesOther ==
    /\ pc = "list"
    /\ raised' = "Exception"
    /\ raisedBy' = "list_objects_v2"
    /\ listCalls' = listCalls + 1
    /\ returned' = new_tables
    /\ pc' = "done"
    /\ UNCHANGED toolVars
    /\ UNCHANGED <<s3_bucket_path, remote, manifestFile, run, response, existing_manifest, idx,
                   new_tables, downloadCalls, manifestReads, manifestWrites,
                   manifestAtStart, prev>>

\* variant: the check for "Contents" does not return
ListNoContents_NoReturn ==
    /\ pc = "list"
    /\ ~ListObjectsV2(remote, 1, 1).hasContents
    /\ response' = ListObjectsV2(remote, 1, 1)
    /\ listCalls' = listCalls + 1
    /\ pc' = "load"
    /\ UNCHANGED toolVars
    /\ UNCHANGED <<s3_bucket_path, remote, manifestFile, run, existing_manifest, idx, new_tables,
                   returned, raised, raisedBy, downloadCalls, manifestReads,
                   manifestWrites, manifestAtStart, prev>>

\* the response has no "Contents": return new_tables at once
ListNoContents ==
    /\ pc = "list"
    /\ ~ListObjectsV2(remote, 1, 1).hasContents
    /\ response' = ListObjectsV2(remote, 1, 1)
    /\ listCalls' = listCalls + 1
    /\ returned' = new_tables
    /\ pc' = "done"
    /\ UNCHANGED toolVars
    /\ UNCHANGED <<s3_bucket_path, remote, manifestFile, run, existing_manifest, idx, new_tables,
                   raised, raisedBy, downloadCalls, manifestReads, manifestWrites,
                   manifestAtStart, prev>>

\* variant: a truncated response without a token makes the call again, with no
\* limit on the calls
ListContents_RepeatsCall ==
    /\ pc = "list"
    /\ ListObjectsV2(remote, 1, listCalls + 1).hasContents
    /\ response' = ListObjectsV2(remote, 1, listCalls + 1)
    /\ listCalls' = listCalls + 1
    /\ pc' = IF response'.IsTruncated /\ ~response'.hasToken THEN "list" ELSE "load"
    /\ UNCHANGED toolVars
    /\ UNCHANGED <<s3_bucket_path, remote, manifestFile, run, existing_manifest, idx, new_tables,
                   returned, raised, raisedBy, downloadCalls, manifestReads,
                   manifestWrites, manifestAtStart, prev>>

\* the response has "Contents": go on to the manifest
ListContents ==
    /\ pc = "list"
    /\ ListObjectsV2(remote, 1, 1).hasContents
    /\ response' = ListObjectsV2(remote, 1, 1)
    /\ listCalls' = listCalls + 1
    /\ pc' = "load"
    /\ UNCHANGED toolVars
    /\ UNCHANGED <<s3_bucket_path, remote, manifestFile, run, existing_manifest, idx, new_tables,
                   returned, raised, raisedBy, downloadCalls, manifestReads,
                   manifestWrites, manifestAtStart, prev>>

\* existing_manifest = {} or what json.load reads from the file
LoadManifest ==
    /\ pc = "load"
    /\ manifestFile.exists => manifestFile.parses
    /\ existing_manifest' = IF manifestFile.exists THEN manifestFile.data
                            ELSE EmptyManifest
    /\ manifestReads' = IF manifestFile.exists THEN manifestReads + 1
                        ELSE manifestReads
    /\ idx' = 1
    /\ pc' = "loop"
    /\ UNCHANGED toolVars
    /\ UNCHANGED <<s3_bucket_path, remote, manifestFile, run, response, new_tables, returned,
                   raised, raisedBy, listCalls, downloadCalls, manifestWrites,
                   manifestAtStart, prev>>

\* variant: a file that is not JSON is taken as an empty manifest
LoadManifestRaises_StartsEmpty ==
    /\ pc = "load"
    /\ manifestFile.exists /\ ~manifestFile.parses
    /\ manifestReads' = manifestReads + 1
    /\ existing_manifest' = EmptyManifest
    /\ idx' = 1
    /\ pc' = "loop"
    /\ UNCHANGED toolVars
    /\ UNCHANGED <<s3_bucket_path, remote, manifestFile, run, response, new_tables, returned,
                   raised, raisedBy, listCalls, downloadCalls, manifestWrites,
                   manifestAtStart, prev>>

\* json.load raises on a file that is not JSON
LoadManifestRaises ==
    /\ pc = "load"
    /\ manifestFile.exists /\ ~manifestFile.parses
    /\ manifestReads' = manifestReads + 1
    /\ raised' = "Exception"
    /\ raisedBy' = "json.load"
    /\ returned' = new_tables
    /\ pc' = "done"
    /\ UNCHANGED toolVars
    /\ UNCHANGED <<s3_bucket_path, remote, manifestFile, run, response, existing_manifest, idx,
                   new_tables, listCalls, downloadCalls, manifestWrites,
                   manifestAtStart, prev>>

\* one pass of the loop whose if condition is false
SkipObject ==
    /\ pc = "loop"
    /\ idx <= Len(response.Contents)
    /\ ~ShouldDownload(existing_manifest, response.Contents[idx])
    /\ idx' = idx + 1
    /\ UNCHANGED toolVars
    /\ UNCHANGED <<s3_bucket_path, remote, manifestFile, pc, run, response, existing_manifest,
                   new_tables, returned, raised, raisedBy, listCalls,
                   downloadCalls, manifestReads, manifestWrites, manifestAtStart,
                   prev>>

\* one pass of the loop that downloads the object
DownloadObject ==
    /\ pc = "loop"
    /\ idx <= Len(response.Contents)
    /\ ShouldDownload(existing_manifest, response.Contents[idx])
    /\ LET obj == response.Contents[idx]
           filename == LastSegment(obj.Key)
       IN  /\ downloadCalls' = Append(downloadCalls, obj.Key)
           /\ new_tables' = Append(new_tables, LocalPath(filename))
           /\ existing_manifest' = DictSet(existing_manifest, filename, RemoteMtime(obj))
    /\ idx' = idx + 1
    /\ UNCHANGED toolVars
    /\ UNCHANGED <<s3_bucket_path, remote, manifestFile, pc, run, response, returned, raised,
                   raisedBy, listCalls, manifestReads, manifestWrites,
                   manifestAtStart, prev>>

\* variant: the except clause saves what the pass has set so far
DownloadRaises_SavesManifest ==
    /\ pc = "loop"
    /\ idx <= Len(response.Contents)
    /\ ShouldDownload(existing_manifest, response.Contents[idx])
    /\ downloadCalls' = Append(downloadCalls, response.Contents[idx].Key)
    /\ raised' = "Exception"
    /\ raisedBy' = "download_file"
    /\ manifestFile' = JsonFile(existing_manifest)
    /\ manifestWrites' = manifestWrites + 1
    /\ returned' = new_tables
    /\ pc' = "done"
    /\ UNCHANGED toolVars
    /\ UNCHANGED <<s3_bucket_path, remote, run, response, existing_manifest, idx,
                   new_tables, listCalls, manifestReads, manifestAtStart, prev>>

\* variant: the failure is caught inside the loop, which goes on
DownloadRaises_Continues ==
    /\ pc = "loop"
    /\ idx <= Len(response.Contents)
    /\ ShouldDownload(existing_manifest, response.Contents[idx])
    /\ downloadCalls' = Append(downloadCalls, response.Contents[idx].Key)
    /\ raised' = "Exception"
    /\ raisedBy' = "download_file"
    /\ idx' = idx + 1
    /\ UNCHANGED toolVars
    /\ UNCHANGED <<s3_bucket_path, remote, manifestFile, pc, run, response, existing_manifest,
                   new_tables, returned, listCalls, manifestReads,
                   manifestWrites, manifestAtStart, prev>>

\* variant: the path is appended and the manifest set before download_file is called
DownloadRaises_AppendsFirst ==
    /\ pc = "loop"
    /\ idx <= Len(response.Contents)
    /\ ShouldDownload(existing_manifest, response.Contents[idx])
    /\ LET obj == response.Contents[idx]
           filename == LastSegment(obj.Key)
       IN  /\ downloadCalls' = Append(downloadCalls, obj.Key)
           /\ new_tables' = Append(new_tables, LocalPath(filename))
           /\ existing_manifest' = DictSet(existing_manifest, filename, RemoteMtime(obj))
           /\ returned' = Append(new_tables, LocalPath(filename))
    /\ raised' = "Exception"
    /\ raisedBy' = "download_file"
    /\ pc' = "done"
    /\ UNCHANGED toolVars
    /\ UNCHANGED <<s3_bucket_path, remote, manifestFile, run, response, idx, listCalls,
                   manifestReads, manifestWrites, manifestAtStart, prev>>

\* download_file raises: the except clause ends the pass
DownloadRaises ==
    /\ pc = "loop"
    /\ idx <= Len(response.Contents)
    /\ ShouldDownload(existing_manifest, response.Contents[idx])
    /\ downloadCalls' = Append(downloadCalls, response.Contents[idx].Key)
    /\ raised' = "Exception"
    /\ raisedBy' = "download_file"
    /\ returned' = new_tables
    /\ pc' = "done"
    /\ UNCHANGED toolVars
    /\ UNCHANGED <<s3_bucket_path, remote, manifestFile, run, response, existing_manifest, idx,
                   new_tables, listCalls, manifestReads, manifestWrites,
                   manifestAtStart, prev>>

\* variant: only the entries of the listed file names are written
WriteManifest_Pruned ==
    /\ pc = "loop"
    /\ idx > Len(response.Contents)
    /\ manifestFile.parent
    /\ manifestFile' =
           JsonFile([f \in {g \in DOMAIN existing_manifest :
                               \E i \in DOMAIN response.Contents :
                                   LastSegment(response.Contents[i].Key) = g}
                     |-> existing_manifest[f]])
    /\ manifestWrites' = manifestWrites + 1
    /\ returned' = new_tables
    /\ pc' = "done"
    /\ UNCHANGED toolVars
    /\ UNCHANGED <<s3_bucket_path, remote, run, response, existing_manifest, idx, new_tables,
                   raised, raisedBy, listCalls, downloadCalls, manifestReads,
                   manifestAtStart, prev>>

\* after the loop: json.dump(existing_manifest) to the manifest file, return
WriteManifest ==
    /\ pc = "loop"
    /\ idx > Len(response.Contents)
    /\ manifestFile.parent
    /\ manifestFile' = JsonFile(existing_manifest)
    /\ manifestWrites' = manifestWrites + 1
    /\ returned' = new_tables
    /\ pc' = "done"
    /\ UNCHANGED toolVars
    /\ UNCHANGED <<s3_bucket_path, remote, run, response, existing_manifest, idx, new_tables,
                   raised, raisedBy, listCalls, downloadCalls, manifestReads,
                   manifestAtStart, prev>>

\* after the loop: open(manifest_file, "w") raises, no directory holds the
\* file; the except clause ends the invocation
WriteManifestRaises ==
    /\ pc = "loop"
    /\ idx > Len(response.Contents)
    /\ ~manifestFile.parent
    /\ raised' = "Exception"
    /\ raisedBy' = "open"
    /\ returned' = new_tables
    /\ pc' = "done"
    /\ UNCHANGED toolVars
    /\ UNCHANGED <<s3_bucket_path, remote, manifestFile, run, response, existing_manifest, idx,
                   new_tables, listCalls, downloadCalls, manifestReads,
                   manifestWrites, manifestAtStart, prev>>

\* the steps of one invocation
Step ==
    \/ ListRaisesCredentials
    \/ ListRaisesOther
    \/ ListNoContents
    \/ ListContents
    \/ LoadManifest
    \/ LoadManifestRaises
    \/ SkipObject
    \/ DownloadObject
    \/ DownloadRaises
    \/ WriteManifest
    \/ WriteManifestRaises

Next == Call \/ Step

Spec == Init /\ [][Next]_vars

\* the function runs on one thread and every call it makes returns or raises
FairSpec == Spec /\ WF_vars(Step)

(* ------------------------------ arcpy tools ----------------------------- *)
\* one invocation of an arcpy tool, as the dataset functions make it
ArcpyCall(tool, out_path, out_name, target) ==
    [tool |-> tool, out_path |-> out_path, out_name |-> out_name, target |-> target]

\* arcpy.management.CreateFileGDB: the geodatabase appears under the folder
CreateFileGDB(fs, out_folder_path, out_name) ==
    WriteNode(fs, Join(out_folder_path, out_name), GdbNode)

\* arcpy.management.CreateOrientedImageryDataset: the dataset appears in the
\* geodatabase it was given, taken here as visible to Path.exists
CreateOrientedImageryDataset(fs, out_dataset_path, out_dataset_name) ==
    WriteNode(fs, Join(out_dataset_path, out_dataset_name), DatasetNode)

(* ------------------------ create_file_geodatabase ----------------------- *)
\* st holds the file system and the arcpy calls made; the value is st after
\* the function has run
create_file_geodatabase(st, file_geodatabase_path) ==
    LET parent_dir == Parent(file_geodatabase_path)
        made == IF ~Exists(st.files, parent_dir)
                THEN MkdirParents(st.files, parent_dir) ELSE st.files
    IN  IF ~Exists(made, file_geodatabase_path)
        THEN [files |-> CreateFileGDB(made, parent_dir, PathName(file_geodatabase_path)),
              calls |-> Append(st.calls,
                               ArcpyCall("CreateFileGDB", parent_dir,
                                         PathName(file_geodatabase_path),
                                         file_geodatabase_path))]
        ELSE [files |-> made, calls |-> st.calls]

CallCreateFileGeodatabase ==
    /\ ncalls < MaxCalls
    /\ \E path \in GdbPaths :
        LET st == create_file_geodatabase([files |-> files, calls |-> arcpyCalls], path)
        IN  /\ files' = st.files
            /\ arcpyCalls' = st.calls
            /\ last' = Outcome("create_file_geodatabase", path, <<path>>, "none")
    /\ filesAtCall' = files
    /\ ncalls' = ncalls + 1
    /\ UNCHANGED script
    /\ UNCHANGED syncVars

(* -------------------- create_oriented_imagery_dataset ------------------- *)
\* the geodatabase the dataset is created in
GdbPathOf(dataset_path) ==
    LET gdb_pth == Parent(dataset_path)
    IN  IF Lower(Suffix(gdb_pth)) # GdbSuffix
        THEN WithSuffix(gdb_pth, GdbSuffix) ELSE gdb_pth

\* the value is st after the function has run, with what it raised or returned
create_oriented_imagery_dataset(st, dataset_path, spatial_reference) ==
    LET gdb_pth == GdbPathOf(dataset_path)
        made == create_file_geodatabase(st, gdb_pth)
    IN  IF spatial_reference \notin {"int", "SpatialReference"}
        THEN [files |-> made.files, calls |-> made.calls,
              raised |-> "TypeError", returned |-> <<>>]
        ELSE IF ~Exists(made.files, dataset_path)
        THEN [files |-> CreateOrientedImageryDataset(made.files, gdb_pth,
                                                     PathName(dataset_path)),
              calls |-> Append(made.calls,
                               ArcpyCall("CreateOrientedImageryDataset", gdb_pth,
                                         PathName(dataset_path), dataset_path)),
              raised |-> "none", returned |-> <<dataset_path>>]
        ELSE [files |-> made.files, calls |-> made.calls,
              raised |-> "none", returned |-> <<dataset_path>>]

CallCreateOrientedImageryDataset ==
    /\ ncalls < MaxCalls
    /\ \E path \in DatasetPaths, spatial_reference \in SpatialReferenceArgs :
        LET st == create_oriented_imagery_dataset(
                      [files |-> files, calls |-> arcpyCalls], path, spatial_reference)
        IN  /\ files' = st.files
            /\ arcpyCalls' = st.calls
            /\ last' = [Outcome("create_oriented_imagery_dataset", path,
                                st.returned, st.raised)
                        EXCEPT !.spatial_reference = spatial_reference]
    /\ filesAtCall' = files
    /\ ncalls' = ncalls + 1
    /\ UNCHANGED script
    /\ UNCHANGED syncVars

(* ---------------- add_images_to_oriented_imagery_dataset ---------------- *)
\* images_path is a local name of the function, read before anything is bound
\* to it: the read raises before any check or tool call
CallAddImages ==
    /\ ncalls < MaxCalls
    /\ \E dataset_path \in DatasetPaths, camera_info_table \in {CamCsv, NopeCsv} :
        last' = [Outcome("add_images_to_oriented_imagery_dataset", dataset_path,
                         <<>>, "UnboundLocalError")
                 EXCEPT !.table = camera_info_table]
    /\ filesAtCall' = files
    /\ ncalls' = ncalls + 1
    /\ UNCHANGED <<files, arcpyCalls>>
    /\ UNCHANGED script
    /\ UNCHANGED syncVars

(* -------------------------------- schema -------------------------------- *)
\* variant: the mapping is filtered by its new names
rename_dataframe_columns_ByNewName(columns, column_mapping) ==
    LET renamed_columns ==
            [old \in {k \in DOMAIN column_mapping :
                         \E i \in DOMAIN columns : columns[i] = column_mapping[k]}
             |-> column_mapping[old]]
    IN  [i \in DOMAIN columns |->
            IF columns[i] \in DOMAIN renamed_columns
            THEN renamed_columns[columns[i]] ELSE columns[i]]

\* DataFrame.rename(columns=renamed_columns), on the column labels
rename_dataframe_columns(columns, column_mapping) ==
    LET renamed_columns ==
            [old \in {k \in DOMAIN column_mapping :
                         \E i \in DOMAIN columns : columns[i] = k}
             |-> column_mapping[old]]
    IN  [i \in DOMAIN columns |->
            IF columns[i] \in DOMAIN renamed_columns
            THEN renamed_columns[columns[i]] ELSE columns[i]]

CallRenameDataframeColumns ==
    /\ ncalls < MaxCalls
    /\ \E columns \in ColumnLists, column_mapping \in Mappings :
        last' = [Outcome("rename_dataframe_columns", <<>>, <<>>, "none")
                 EXCEPT !.columns = columns,
                        !.mapping = column_mapping,
                        !.result = rename_dataframe_columns(columns, column_mapping)]
    /\ filesAtCall' = files
    /\ ncalls' = ncalls + 1
    /\ UNCHANGED <<files, arcpyCalls>>
    /\ UNCHANGED script
    /\ UNCHANGED syncVars

\* the value is the file system after the function has run, with what it
\* raised or returned
rename_csv_columns(fs, input_csv_path, output_csv_path, column_mapping) ==
    IF ~Exists(fs, input_csv_path)
    THEN [files |-> fs, raised |-> "FileNotFoundError", returned |-> <<>>,
          columns |-> <<>>, result |-> <<>>]
    ELSE LET input_data == fs[input_csv_path].columns
             renamed_data == rename_dataframe_columns(input_data, column_mapping)
         IN  [files |-> WriteNode(fs, output_csv_path, CsvNode(renamed_data)),
              raised |-> "none", returned |-> <<output_csv_path>>,
              columns |-> input_data, result |-> renamed_data]

CallRenameCsvColumns ==
    /\ ncalls < MaxCalls
    /\ \E input_csv_path \in {CamCsv, NopeCsv}, column_mapping \in Mappings :
        LET out == rename_csv_columns(files, input_csv_path, OutCsv, column_mapping)
        IN  /\ files' = out.files
            /\ last' = [Outcome("rename_csv_columns", OutCsv, out.returned, out.raised)
                        EXCEPT !.table = input_csv_path,
                               !.columns = out.columns,
                               !.mapping = column_mapping,
                               !.result = out.result]
    /\ filesAtCall' = files
    /\ ncalls' = ncalls + 1
    /\ UNCHANGED arcpyCalls
    /\ UNCHANGED script
    /\ UNCHANGED syncVars

\* the dataset and schema functions, called in any order on one file system;
\* no sync is running
ToolInit ==
    /\ remote = [objects |-> <<>>, pageSize |-> MaxRecs, token |-> "always"]
    /\ manifestFile = AbsentFile
    /\ pc = "idle"
    /\ run = 0
    /\ response = NoResponse
    /\ existing_manifest = EmptyManifest
    /\ idx = 1
    /\ new_tables = <<>>
    /\ returned = <<>>
    /\ raised = "none"
    /\ raisedBy = "none"
    /\ listCalls = 0
    /\ downloadCalls = <<>>
    /\ manifestReads = 0
    /\ manifestWrites = 0
    /\ manifestAtStart = manifestFile
    /\ prev = "none"
    /\ s3_bucket_path = NoPath
    /\ files \in FilesAtStart
    /\ filesAtCall = files
    /\ arcpyCalls = <<>>
    /\ last = NoCall
    /\ ncalls = 0
    /\ script = NotStarted

ToolNext ==
    \/ CallCreateFileGeodatabase
    \/ CallCreateOrientedImageryDataset
    \/ CallAddImages
    \/ CallRenameDataframeColumns
    \/ CallRenameCsvColumns

ToolSpec == ToolInit /\ [][ToolNext]_vars

(* ------------------------- scripts/make_data.py ------------------------- *)
\* config.read and the four config.get calls: an option that config.ini lacks
\* raises NoOptionError; otherwise log_dir, log_level are strings
MakeDataReadConfig ==
    /\ script.pc = "start"
    /\ \E present \in SUBSET ConfigOptions :
        script' = IF present = ConfigOptions
                  THEN ScriptAt("log_dir", "none")
                  ELSE ScriptAt("ended", "NoOptionError")
    /\ UNCHANGED <<files, filesAtCall, arcpyCalls, last, ncalls>>
    /\ UNCHANGED syncVars

\* log_dir.exists(): log_dir is the str that config.get returned, which has no
\* attribute exists; the script ends here, before its call of
\* get_new_camera_info_tables and before its loop over the new CSV files
MakeDataLogDir ==
    /\ script.pc = "log_dir"
    /\ script' = ScriptAt("ended", "AttributeError")
    /\ UNCHANGED <<files, filesAtCall, arcpyCalls, last, ncalls>>
    /\ UNCHANGED syncVars

ScriptNext == MakeDataReadConfig \/ MakeDataLogDir

\* one run of the script, against any store and any manifest file
ScriptSpec == Init /\ [][ScriptNext]_vars

(* ------------------------- vocabulary of the claims --------------------- *)
Range(seq) == {seq[i] : i \in DOMAIN seq}

\* the mapping a manifest file holds (none when absent or unreadable)
FileData(file) == IF file.exists /\ file.parses THEN file.data ELSE EmptyManifest

\* the manifest M the invocation started from
M0 == FileData(manifestAtStart)

\* a manifest's entry for a file name: <<value>>, or <<>> when it has none
Entry(m, f) == IF f \in DOMAIN m THEN <<m[f]>> ELSE <<>>

KeyIsCsv(key) == EndsWith(key, CsvSuffix)

\* the record's file name is absent from m or m's string for it differs
QualifiesAgainst(m, obj) ==
    Entry(m, LastSegment(obj.Key)) # <<RemoteMtime(obj)>>

\* the invocation returned after its loop and its write of the manifest
CompletedPass == pc = "done" /\ raised = "none" /\ response.hasContents

\* position of a key in the whole remote listing
PosOf(key) == CHOOSE i \in DOMAIN remote.objects : remote.objects[i].Key = key

(* -------------------------------- claims -------------------------------- *)
\* C1: after a pass, a listed record whose file name ends in ".csv" was passed
\* to download_file and has its local path in the result if and only if its
\* file name is absent from the manifest M loaded at the start or M's string
\* for it differs from the record's timestamp string.
C1_DownloadedIffDiffersFromLoaded ==
    CompletedPass =>
        \A i \in DOMAIN response.Contents :
            LET obj == response.Contents[i]
                filename == LastSegment(obj.Key)
            IN  IsCsvFile(filename) =>
                    ((/\ obj.Key \in Range(downloadCalls)
                      /\ LocalPath(filename) \in Range(returned))
                     <=> QualifiesAgainst(M0, obj))

\* C2: a second invocation after a completed one, with the same manifest path
\* and the remote listing unchanged, calls download_file for nothing and
\* returns an empty result.
C2_SecondRunDownloadsNothing ==
    (pc = "done" /\ run >= 2 /\ prev \in {"ok", "no_contents"}) =>
        (downloadCalls = <<>> /\ returned = <<>>)

\* C3: after an invocation that completes without error, the manifest file has,
\* for every ".csv" record of the current remote listing, an entry for its file
\* name equal to the record's timestamp string.
C3_ManifestMatchesRemote ==
    (pc = "done" /\ raised = "none") =>
        \A i \in DOMAIN remote.objects :
            LET obj == remote.objects[i]
            IN  KeyIsCsv(obj.Key) =>
                    Entry(FileData(manifestFile), LastSegment(obj.Key))
                        = <<RemoteMtime(obj)>>

\* C4: a record whose key does not end in ".csv" is never passed to
\* download_file, never has its local path in the result, and never has the
\* manifest entry of its file name added or changed, in memory or in the file.
C4_NonCsvNeverTouched ==
    /\ \A i \in DOMAIN downloadCalls : KeyIsCsv(downloadCalls[i])
    /\ \A i \in DOMAIN remote.objects :
           LET key == remote.objects[i].Key
               filename == LastSegment(key)
           IN  ~KeyIsCsv(key) =>
                   /\ LocalPath(filename) \notin Range(new_tables) \cup Range(returned)
                   /\ Entry(FileData(manifestFile), filename) = Entry(M0, filename)
                   /\ pc = "loop" =>
                          Entry(existing_manifest, filename) = Entry(M0, filename)

\* a pass over a listing with notes.txt, whose manifest entry is older than the
\* listed object, and with a table that was downloaded
C4_Witness ==
    /\ CompletedPass
    /\ downloadCalls # <<>>
    /\ \E i \in DOMAIN response.Contents :
           /\ response.Contents[i].Key = KeyTxt
           /\ Entry(M0, FileTxt) # <<>>
           /\ QualifiesAgainst(M0, response.Contents[i])

\* the objects of all pages that qualify against the manifest loaded at the start
QualifyingKeys ==
    {remote.objects[i].Key : i \in {j \in DOMAIN remote.objects :
        /\ KeyIsCsv(remote.objects[j].Key)
        /\ QualifiesAgainst(M0, remote.objects[j])}}

AllQualifyingFetched ==
    /\ \A key \in QualifyingKeys : LocalPath(LastSegment(key)) \in Range(returned)
    /\ \A i, j \in DOMAIN downloadCalls :
           i < j => PosOf(downloadCalls[i]) < PosOf(downloadCalls[j])

\* C5: with the listing split across N pages, each non-final page carrying its
\* token, the invocation makes one list call per page and downloads and returns
\* the qualifying records of all N pages in page-then-record order.
C5_EveryPageListed ==
    (CompletedPass /\ remote.token = "always") =>
        (listCalls = NumPages(remote) /\ AllQualifyingFetched)

\* C6: when the first page is truncated without a token and the token comes with
\* a repeated call, the invocation repeats the call and then downloads and
\* returns the qualifying records of the first and of all later pages.
C6_RetryFindsToken ==
    (CompletedPass /\ remote.token = "on_retry") =>
        (listCalls > NumPages(remote) /\ AllQualifyingFetched)

\* the last record of a page that carries a file name
LastNamed(contents, filename) ==
    contents[SetMax({i \in DOMAIN contents : LastSegment(contents[i].Key) = filename})]

\* how many steps the invocation can still take
Rank ==
    CASE pc = "list" -> Len(remote.objects) + 3
      [] pc = "load" -> Len(response.Contents) + 2
      [] pc = "loop" -> Len(response.Contents) + 2 - idx
      [] OTHER -> 0

C7_CollectedRecorded ==
    remote.token = "never" =>
        /\ listCalls <= 1
        /\ pc \in {"list", "load", "loop"} => ENABLED Step
        /\ CompletedPass =>
               \A i \in DOMAIN response.Contents :
                   LET obj == response.Contents[i]
                       filename == LastSegment(obj.Key)
                   IN  (KeyIsCsv(obj.Key) /\ QualifiesAgainst(M0, obj)) =>
                           /\ LocalPath(filename) \in Range(returned)
                           /\ \E j \in DOMAIN downloadCalls :
                                  LastSegment(downloadCalls[j]) = filename
                           /\ Entry(FileData(manifestFile), filename) =
                                  <<RemoteMtime(LastNamed(response.Contents, filename))>>

\* C7: when every listing response is truncated and none carries a token, the
\* invocation makes a bounded number of list calls, each of its steps brings it
\* closer to its return and it is never stuck before it, and the qualifying
\* records of the page it collected are downloaded, returned and recorded in
\* the manifest file.
C7_MissingTokenTerminates ==
    /\ []C7_CollectedRecorded
    /\ [][(remote.token = "never" /\ Step) => (Rank' < Rank /\ Rank' >= 0)]_vars

\* a pass against a store that never supplies the token, with a download
C7_Witness ==
    /\ CompletedPass
    /\ remote.token = "never"
    /\ response.IsTruncated /\ ~response.hasToken
    /\ downloadCalls # <<>>
    /\ manifestWrites = 1

\* C8: when the first list call raises NoCredentialsError or
\* PartialCredentialsError, the invocation returns an empty result, calls
\* download_file for nothing, and leaves the manifest file as it was: not
\* created when absent, unchanged when present.
C8_CredentialsErrorLeavesManifest ==
    (pc = "done" /\ raisedBy = "list_objects_v2"
        /\ raised \in {"NoCredentialsError", "PartialCredentialsError"}) =>
        /\ returned = <<>>
        /\ downloadCalls = <<>>
        /\ manifestWrites = 0
        /\ manifestFile = manifestAtStart

\* the first list call raised NoCredentialsError and there was no manifest file
C8_Witness ==
    /\ pc = "done"
    /\ raised = "NoCredentialsError"
    /\ raisedBy = "list_objects_v2"
    /\ listCalls = 1
    /\ ~manifestAtStart.exists

\* C9: when the first listing response has no "Contents", the invocation returns
\* an empty result after that one call, calls download_file for nothing, and
\* neither reads nor writes nor creates the manifest file.
C9_NoContentsLeavesManifest ==
    (pc = "done" /\ raised = "none" /\ ~response.hasContents) =>
        /\ returned = <<>>
        /\ listCalls = 1
        /\ downloadCalls = <<>>
        /\ manifestReads = 0
        /\ manifestWrites = 0
        /\ manifestFile = manifestAtStart

\* an invocation that found no "Contents" while a manifest file existed
C9_Witness ==
    /\ pc = "done"
    /\ raised = "none"
    /\ ~response.hasContents
    /\ manifestAtStart.exists /\ manifestAtStart.parses
    /\ manifestAtStart.data # EmptyManifest

\* C10: an error of the remote store that is no credentials error, raised by the
\* list call or by a download_file call at any position, is caught, and the
\* invocation returns an empty result and leaves the manifest file untouched.
C10_RemoteErrorReturnsEmpty ==
    (pc = "done" /\ raised = "Exception"
        /\ raisedBy \in {"list_objects_v2", "download_file"}) =>
        /\ returned = <<>>
        /\ manifestWrites = 0
        /\ manifestFile = manifestAtStart

\* the download_file calls of this invocation that returned
SuccessfulDownloads ==
    IF raisedBy = "download_file"
    THEN SubSeq(downloadCalls, 1, Len(downloadCalls) - 1)
    ELSE downloadCalls

\* the listed object a key names
ObjectOf(key) == remote.objects[PosOf(key)]

\* the file names this invocation downloaded
DownloadedNames == {LastSegment(key) : key \in Range(SuccessfulDownloads)}

\* the timestamp of the last record downloaded to a file name
LastDownloadedMtime(filename) ==
    RemoteMtime(ObjectOf(SuccessfulDownloads[
        SetMax({i \in DOMAIN SuccessfulDownloads :
                   LastSegment(SuccessfulDownloads[i]) = filename})]))

\* C11: whenever the invocation has returned, normally or after a caught error,
\* every local path in the result has its file name in the manifest file with
\* the timestamp of the record that was downloaded to it.
C11_ResultInPersistedManifest ==
    pc = "done" =>
        \A key \in Range(SuccessfulDownloads) :
            LET filename == LastSegment(key)
            IN  LocalPath(filename) \in Range(returned) =>
                    Entry(FileData(manifestFile), filename)
                        = <<LastDownloadedMtime(filename)>>

\* C12: after an invocation that completes without error the manifest file
\* holds every entry of the manifest loaded at the start, with its value
\* unchanged unless the file name was downloaded in this invocation, and holds
\* no entry beyond those but the downloaded ones: no key is removed.
C12_ManifestFrame ==
    (pc = "done" /\ raised = "none") =>
        /\ \A f \in DOMAIN M0 :
               /\ f \in DOMAIN FileData(manifestFile)
               /\ f \notin DownloadedNames => FileData(manifestFile)[f] = M0[f]
        /\ \A f \in DOMAIN FileData(manifestFile) :
               f \notin DOMAIN M0 => f \in DownloadedNames

\* a pass that downloaded a table and kept the entry of a file no longer listed
C12_Witness ==
    /\ CompletedPass
    /\ manifestWrites = 1
    /\ downloadCalls # <<>>
    /\ FileA \in DOMAIN M0
    /\ \A i \in DOMAIN remote.objects : LastSegment(remote.objects[i].Key) # FileA

\* C13: no local path appears twice in the result of one invocation, whatever
\* the listing, keys with the same last path segment included.
C13_ResultHasNoDuplicates ==
    pc = "done" =>
        \A i, j \in DOMAIN returned : i # j => returned[i] # returned[j]

\* the loop has examined every record of the response and downloaded what it had to
LoopFinished ==
    /\ idx > Len(response.Contents)
    /\ \A i \in DOMAIN response.Contents :
           LET obj == response.Contents[i]
           IN  (KeyIsCsv(obj.Key) /\ QualifiesAgainst(M0, obj)) =>
                   \E j \in DOMAIN SuccessfulDownloads :
                       LastSegment(SuccessfulDownloads[j]) = LastSegment(obj.Key)

C18_WriteOnlyAfterFullPass ==
    /\ manifestWrites <= 1
    /\ manifestWrites = 1 => (pc = "done" /\ raised = "none" /\ LoopFinished)
    /\ raised # "none" => (manifestWrites = 0 /\ manifestFile = manifestAtStart)
    /\ manifestWrites = 0 => manifestFile = manifestAtStart

LaterRecords == {i \in DOMAIN response.Contents : i > idx}

\* C19 as claimed: when download_file fails for a record, every later qualifying
\* record of the pass is still downloaded and is in the result.
C19_LaterRecordsStillDownloaded ==
    (pc = "done" /\ raisedBy = "download_file") =>
        \A i \in LaterRecords :
            LET obj == response.Contents[i]
            IN  (KeyIsCsv(obj.Key) /\ QualifiesAgainst(M0, obj)) =>
                    /\ obj.Key \in Range(downloadCalls)
                    /\ LocalPath(LastSegment(obj.Key)) \in Range(returned)

\* C19 as amended: when download_file fails for a record the pass ends there:
\* the failed call is the last download_file call, no later record of the
\* response is passed to download_file.
C19_FailedDownloadEndsPass ==
    raisedBy = "download_file" =>
        /\ pc = "done"
        /\ downloadCalls # <<>>
        /\ downloadCalls[Len(downloadCalls)] = response.Contents[idx].Key
        /\ \A i \in LaterRecords : response.Contents[i].Key \notin Range(downloadCalls)

\* a failed download with a qualifying record still ahead in the response
C19_Witness ==
    /\ pc = "done"
    /\ raisedBy = "download_file"
    /\ \E i \in LaterRecords :
           /\ KeyIsCsv(response.Contents[i].Key)
           /\ QualifiesAgainst(M0, response.Contents[i])
           /\ LastSegment(response.Contents[i].Key) # LastSegment(response.Contents[idx].Key)

\* the manifest was loaded in this invocation
ManifestLoaded ==
    \/ pc = "loop"
    \/ pc = "done" /\ response.hasContents /\ raisedBy \in {"none", "download_file", "open"}

\* position of a key in the response
PosInResponse(key) ==
    CHOOSE i \in DOMAIN response.Contents : response.Contents[i].Key = key

\* C20: the result is, in order, the local paths of the download_file calls
\* that returned; the calls follow the listing order; the manifest in memory is
\* the loaded one with, for each file name downloaded, the timestamp of the
\* last record downloaded to it; a call that raised adds no path and sets no
\* entry.
C20_ResultFollowsDownloads ==
    /\ Len(new_tables) = Len(SuccessfulDownloads)
    /\ \A i \in DOMAIN new_tables :
           new_tables[i] = LocalPath(LastSegment(SuccessfulDownloads[i]))
    /\ pc = "done" => returned = new_tables
    /\ \A i, j \in DOMAIN downloadCalls :
           i < j => PosInResponse(downloadCalls[i]) < PosInResponse(downloadCalls[j])
    /\ ManifestLoaded =>
           /\ DOMAIN existing_manifest = DOMAIN M0 \cup DownloadedNames
           /\ \A f \in DOMAIN existing_manifest :
                  existing_manifest[f] = IF f \in DownloadedNames
                                         THEN LastDownloadedMtime(f)
                                         ELSE M0[f]

\* a download that returned, then a call that raised and left no manifest entry
C20_Witness ==
    /\ pc = "done"
    /\ raisedBy = "download_file"
    /\ Len(SuccessfulDownloads) >= 1
    /\ LastSegment(downloadCalls[Len(downloadCalls)]) \notin DOMAIN existing_manifest

(* -------------------- dataset and schema functions ---------------------- *)
\* arcpy calls of one tool made for one target path
CallsFor(tool, target) ==
    {i \in DOMAIN arcpyCalls :
        arcpyCalls[i].tool = tool /\ arcpyCalls[i].target = target}

\* C14: however often create_file_geodatabase and
\* create_oriented_imagery_dataset are called with one path, the arcpy
\* creation tool is invoked for that path at most once (only while the target
\* does not exist), and every call that returns gives back the path it got.
C14_CreationInvokedAtMostOnce ==
    /\ \A path \in GdbPaths : Cardinality(CallsFor("CreateFileGDB", path)) <= 1
    /\ \A path \in DatasetPaths :
           Cardinality(CallsFor("CreateOrientedImageryDataset", path)) <= 1
    /\ (/\ last.fn \in {"create_file_geodatabase", "create_oriented_imagery_dataset"}
        /\ last.raised = "none") => last.returned = <<last.path>>

\* C15: called with a dataset path that exists and a camera info table that
\* exists, add_images_to_oriented_imagery_dataset does not raise, returns the
\* dataset path, and its AddImagesToOrientedImageryDataset call for that
\* dataset is the last arcpy call made.
C15_AddImagesInvokesTool ==
    (/\ last.fn = "add_images_to_oriented_imagery_dataset"
     /\ Exists(filesAtCall, last.path)
     /\ Exists(filesAtCall, last.table))
    => /\ last.raised = "none"
       /\ last.returned = <<last.path>>
       /\ arcpyCalls # <<>>
       /\ arcpyCalls[Len(arcpyCalls)].tool = "AddImagesToOrientedImageryDataset"
       /\ arcpyCalls[Len(arcpyCalls)].target = last.path

\* C16: a call of create_oriented_imagery_dataset that raises TypeError has
\* invoked no CreateOrientedImageryDataset and has left the file system as it
\* was before the call.
C16_TypeErrorLeavesFileSystem ==
    [][(last'.fn = "create_oriented_imagery_dataset" /\ last'.raised = "TypeError")
       => /\ files' = files
          /\ \A i \in DOMAIN arcpyCalls' :
                 i > Len(arcpyCalls)
                 => arcpyCalls'[i].tool # "CreateOrientedImageryDataset"]_vars

\* the columns and the result of the last renaming that did not raise
Renamed == last.fn \in {"rename_dataframe_columns", "rename_csv_columns"}
           /\ last.raised = "none"

\* C17: a renaming gives every column that is a key of the mapping its mapped
\* name and leaves every other column with its name, at its position; the
\* number of columns is the same; with no key among the columns the list comes
\* back as it was. rename_csv_columns given a missing input file raises
\* FileNotFoundError and leaves the file system, the output file included, as
\* it was.
C17_RenameMappedColumnsOnly ==
    /\ Renamed =>
        /\ Len(last.result) = Len(last.columns)
        /\ \A i \in DOMAIN last.columns :
               last.result[i] = IF last.columns[i] \in DOMAIN last.mapping
                                THEN last.mapping[last.columns[i]]
                                ELSE last.columns[i]
        /\ (DOMAIN last.mapping \cap Range(last.columns) = {}
            => last.result = last.columns)
    /\ (last.fn = "rename_csv_columns" /\ ~Exists(filesAtCall, last.table))
        => /\ last.raised = "FileNotFoundError"
           /\ last.returned = <<>>
           /\ files = filesAtCall

\* a table with a mapped and an unmapped column has been renamed
C17_Witness ==
    /\ Renamed
    /\ \E i, j \in DOMAIN last.columns :
        /\ last.columns[i] \in DOMAIN last.mapping
        /\ last.columns[j] \notin DOMAIN last.mapping
        /\ last.result[i] # last.columns[i]
        /\ last.result[j] = last.columns[j]

(* --------------------------- unreadable manifest ------------------------ *)
\* the invocation started on a manifest file that is not JSON
StartedCorrupt == run >= 1 /\ manifestAtStart.exists /\ ~manifestAtStart.parses

\* C24: an invocation that starts on a manifest file that is not JSON makes no
\* download_file call, never enters the loop (json.load raises and the
\* invocation returns), returns the empty list and leaves the file as it was;
\* so every later invocation starts on the same file and does the same.
C24_NoDownloadWhileCorrupt ==
    StartedCorrupt =>
        /\ downloadCalls = <<>>
        /\ new_tables = <<>>
        /\ manifestWrites = 0
        /\ manifestFile = manifestAtStart
        /\ pc = "load" => ENABLED LoadManifestRaises
        /\ pc # "loop"
        /\ returned = <<>>

\* a second invocation on the unreadable file, with a CSV object listed, has
\* returned after json.load raised, as the first did
C24_Witness ==
    /\ StartedCorrupt
    /\ run = 2
    /\ prev = "error"
    /\ pc = "done"
    /\ raisedBy = "json.load"
    /\ \E i \in DOMAIN response.Contents : KeyIsCsv(response.Contents[i].Key)

(* ------------------------- persisting the manifest ---------------------- *)
\* the invocation returned after a listing and a loop in which nothing raised
PassReachedWrite ==
    /\ pc = "done"
    /\ response.hasContents
    /\ raisedBy \notin {"list_objects_v2", "json.load", "download_file"}

\* C22: an invocation whose listing, manifest load and downloads all succeeded
\* ends with the manifest file present and holding the in-memory manifest,
\* whether or not the directory of manifest_file existed before, and the file
\* has an entry for every file reported in the result.
C22_ManifestPersistedAfterPass ==
    PassReachedWrite =>
        /\ manifestFile = JsonFile(existing_manifest)
        /\ \A i \in DOMAIN returned :
               \E f \in DOMAIN FileData(manifestFile) : LocalPath(f) = returned[i]

(* ------------------------ malformed remote location --------------------- *)
\* the invocation was given an s3_bucket_path that the pattern does not match
MalformedCall == run >= 1 /\ ~BucketMatches(s3_bucket_path)

\* C23: an invocation whose s3_bucket_path does not match s3://<bucket> ends
\* with the exception raised to the caller and nothing returned, having made
\* no list_objects_v2 and no download_file call and having neither read nor
\* written the manifest file.
C23_MalformedPathFailsFast ==
    MalformedCall =>
        /\ pc = "failed"
        /\ raised = "AttributeError"
        /\ returned = <<>>
        /\ listCalls = 0
        /\ downloadCalls = <<>>
        /\ manifestReads = 0
        /\ manifestWrites = 0
        /\ manifestFile = manifestAtStart

\* a malformed path given while the store holds a CSV object that a
\* well-formed call would download
C23_Witness ==
    /\ MalformedCall
    /\ pc = "failed"
    /\ QualifyingKeys # {}

(* ------------------------- scripts/make_data.py ------------------------- *)
\* C21: a run of make_data.py that was given a complete configuration makes
\* one call of get_new_camera_info_tables and passes each file of the list it
\* returned to process_camera_info_table once, in the order of the list.
C21_EachNewTableProcessedOnce ==
    (script.pc = "ended" /\ script.raised # "NoOptionError") =>
        /\ script.syncCalls = 1
        /\ script.processCalls = script.new_csv_files
        /\ \A i, j \in DOMAIN script.processCalls :
               i # j => script.processCalls[i] # script.processCalls[j]

====
